---------------------------- MODULE Spec2Model ----------------------------
(***************************************************************************)
(* Model of the todo application: the Task entity (todo_app/models.py),    *)
(* the JSON file store (todo_app/storage.py) and the request handlers      *)
(* (todo_app/app.py).                                                      *)
(*                                                                         *)
(* Representation.                                                         *)
(*   - A Python str is a tuple of one-character strings, so that strip,    *)
(*     lower, substring search and code-point comparison are computed.     *)
(*   - Optional[str] None is the tuple None, which no str equals.          *)
(*   - A timestamp (isoformat, second precision) is the number of the      *)
(*     second; isoformat strings of one width compare as these numbers.    *)
(*   - A task id (uuid4().hex) is a positive number; uuid4 is modelled as  *)
(*     a generator that never returns a value it returned before.          *)
(*   - The file content is a sequence of JSON tokens: "[" and "]", a       *)
(*     whitespace run, a number, a piece of text that is not JSON, and an  *)
(*     object (a mapping from keys to values).  Commas are elided.         *)
(***************************************************************************)
EXTENDS Integers, Sequences, FiniteSets, TLC

VARIABLES
    fileExists,   \* TaskStorage.path.exists()
    content,      \* the bytes of the file at TaskStorage.path, as JSON tokens
    clock,        \* datetime.now(), in whole seconds
    nextId,       \* the next value uuid4 returns
    resp,         \* the last request and what the handler answered
    pc,           \* per concurrent writer: where its request is
    payload,      \* per concurrent writer: the text its save writes
    memory,       \* per concurrent writer: the task list its save was given
    lastWrite,    \* the writer whose write reached the file last (0: none)
    seen,         \* what the loads of concurrent readers returned
    committed     \* the collections that were stored or handed to save

vars == <<fileExists, content, clock, nextId, resp,
          pc, payload, memory, lastWrite, seen, committed>>

fileVars == <<fileExists, content>>
concVars == <<pc, payload, memory, lastWrite, seen, committed>>

---------------------------------------------------------------------------
(* Bounds of the model. *)

MaxClock == 1        \* the last second the clock reaches
MaxIds == 2          \* ids uuid4 hands out (so, tasks ever created)
MaxViewTasks == 2    \* tasks in the collections the view is applied to
MaxFileTokens == 3   \* tokens of the file contents load is applied to
MaxConcTasks == 2    \* tasks in the collection concurrent writers start from

---------------------------------------------------------------------------
(* Python strings. *)

None == <<"<None>">>

Digits == {"0", "1", "2", "3", "4", "5", "6", "7", "8", "9"}

DigitVal(c) ==
    CASE c = "0" -> 0 [] c = "1" -> 1 [] c = "2" -> 2 [] c = "3" -> 3
      [] c = "4" -> 4 [] c = "5" -> 5 [] c = "6" -> 6 [] c = "7" -> 7
      [] c = "8" -> 8 [] c = "9" -> 9

\* ord(c) for the characters the model uses
Ord(c) ==
    CASE c = " " -> 32 [] c = "-" -> 45
      [] c \in Digits -> 48 + DigitVal(c)
      [] c = "A" -> 65 [] c = "B" -> 66 [] c = "D" -> 68
      [] c = "a" -> 97 [] c = "b" -> 98 [] c = "d" -> 100
      [] c = "x" -> 120

\* str.__lt__: comparison by code point, a proper prefix is smaller
RECURSIVE StrLess(_, _)
StrLess(s, t) ==
    IF t = <<>> THEN FALSE
    ELSE IF s = <<>> THEN TRUE
    ELSE IF Head(s) = Head(t) THEN StrLess(Tail(s), Tail(t))
    ELSE Ord(Head(s)) < Ord(Head(t))

\* str.strip(): leading and trailing whitespace removed
RECURSIVE LStrip(_)
LStrip(s) == IF s # <<>> /\ Head(s) = " " THEN LStrip(Tail(s)) ELSE s

RECURSIVE RStrip(_)
RStrip(s) ==
    IF s # <<>> /\ s[Len(s)] = " " THEN RStrip(SubSeq(s, 1, Len(s) - 1)) ELSE s

Strip(s) == RStrip(LStrip(s))

\* str.lower()
LowerChar(c) ==
    CASE c = "A" -> "a" [] c = "B" -> "b" [] c = "D" -> "d" [] OTHER -> c

Lower(s) == [i \in 1..Len(s) |-> LowerChar(s[i])]

\* needle in hay
Contains(hay, needle) ==
    \E i \in 1..(Len(hay) + 1) :
        /\ i + Len(needle) - 1 <= Len(hay)
        /\ SubSeq(hay, i, i + Len(needle) - 1) = needle

---------------------------------------------------------------------------
(* datetime.strptime(raw, "%Y-%m-%d"): three fields separated by "-"; the  *)
(* year is four digits, the month one or two digits, the day one or two    *)
(* digits or a space and a digit; the date must exist in the calendar.     *)

RECURSIVE SplitDash(_, _, _)
SplitDash(s, cur, acc) ==
    IF s = <<>> THEN Append(acc, cur)
    ELSE IF Head(s) = "-" THEN SplitDash(Tail(s), <<>>, Append(acc, cur))
    ELSE SplitDash(Tail(s), Append(cur, Head(s)), acc)

AllDigits(s) == \A i \in 1..Len(s) : s[i] \in Digits

RECURSIVE NumVal(_)
NumVal(s) ==
    IF s = <<>> THEN 0 ELSE 10 * NumVal(SubSeq(s, 1, Len(s) - 1)) + DigitVal(s[Len(s)])

IsLeap(y) == (y % 4 = 0 /\ y % 100 # 0) \/ y % 400 = 0

DaysIn(y, m) ==
    IF m = 2 THEN (IF IsLeap(y) THEN 29 ELSE 28)
    ELSE IF m \in {4, 6, 9, 11} THEN 30 ELSE 31

Strptime(raw) ==
    LET parts == SplitDash(raw, <<>>, <<>>)
        y == parts[1]
        m == parts[2]
        d == IF Len(parts[3]) = 2 /\ parts[3][1] = " " THEN <<parts[3][2]>> ELSE parts[3]
    IN  /\ Len(parts) = 3
        /\ Len(y) = 4 /\ AllDigits(y) /\ NumVal(y) >= 1
        /\ Len(m) \in {1, 2} /\ AllDigits(m) /\ NumVal(m) \in 1..12
        /\ Len(d) \in {1, 2} /\ Len(d) <= Len(parts[3]) /\ AllDigits(d)
        /\ NumVal(d) \in 1..DaysIn(NumVal(y), NumVal(m))

\* validate_due_date: [ok |-> FALSE] stands for the ValueError
validate_due_date(raw_value) ==
    LET v == Strip(raw_value)
    IN  IF v = <<>> THEN [ok |-> TRUE, value |-> None]
        ELSE IF Strptime(v) THEN [ok |-> TRUE, value |-> v]
        ELSE [ok |-> FALSE, value |-> None]

---------------------------------------------------------------------------
(* The Task entity (models.py). *)

\* Task(title=..., description=..., due_date=...): the dataclass constructor.
\* id, created_at and updated_at come from three default factories, called in
\* field order: uuid4, then _now for created_at, then _now again for updated_at.
Task(title, description, due_date, newId, now1, now2) ==
    [title |-> title, description |-> description, due_date |-> due_date,
     completed |-> FALSE, id |-> newId, created_at |-> now1, updated_at |-> now2]

to_dict(task) ==
    [title |-> task.title, description |-> task.description,
     due_date |-> task.due_date, completed |-> task.completed, id |-> task.id,
     created_at |-> task.created_at, updated_at |-> task.updated_at]

\* Task.from_dict: data.get(key, default) for each key
from_dict(data, newId, now) ==
    LET keys == DOMAIN data
    IN  [title |-> IF "title" \in keys THEN data.title ELSE <<>>,
         description |-> IF "description" \in keys THEN data.description ELSE <<>>,
         due_date |-> IF "due_date" \in keys THEN data.due_date ELSE None,
         completed |-> IF "completed" \in keys THEN data.completed ELSE FALSE,
         id |-> IF "id" \in keys THEN data.id ELSE newId,
         created_at |-> IF "created_at" \in keys THEN data.created_at ELSE now,
         updated_at |-> IF "updated_at" \in keys THEN data.updated_at ELSE now]

---------------------------------------------------------------------------
(* JSON text as tokens, json.dumps and json.loads. *)

LB == [t |-> "["]
RB == [t |-> "]"]
WS == [t |-> "ws"]
NUM == [t |-> "num"]
JUNK == [t |-> "junk"]
Obj(d) == [t |-> "obj", v |-> d]

\* json.dumps(payload, indent=2) of a list of dicts
RECURSIVE DumpItems(_)
DumpItems(items) ==
    IF items = <<>> THEN <<>>
    ELSE <<WS, Obj(Head(items))>> \o DumpItems(Tail(items))

json_dumps(items) ==
    IF items = <<>> THEN <<LB, RB>> ELSE <<LB>> \o DumpItems(items) \o <<WS, RB>>

JsonError == [ok |-> FALSE]

\* the JSON grammar on tokens: value ::= number | object | "[" value* "]";
\* s: the tokens, i: the place of the next one, next: the place after the value
RECURSIVE ParseValue(_, _), ParseItems(_, _, _)
ParseValue(s, i) ==
    IF i > Len(s) THEN JsonError
    ELSE IF s[i].t = "num" THEN [ok |-> TRUE, val |-> [k |-> "num"], next |-> i + 1]
    ELSE IF s[i].t = "obj"
         THEN [ok |-> TRUE, val |-> [k |-> "obj", v |-> s[i].v], next |-> i + 1]
    ELSE IF s[i].t = "[" THEN ParseItems(s, i + 1, <<>>)
    ELSE JsonError

ParseItems(s, i, acc) ==
    IF i > Len(s) THEN JsonError
    ELSE IF s[i].t = "]"
         THEN [ok |-> TRUE, val |-> [k |-> "arr", items |-> acc], next |-> i + 1]
    ELSE LET r == ParseValue(s, i)
         IN  IF r.ok THEN ParseItems(s, r.next, Append(acc, r.val)) ELSE JsonError

IsWs(tok) == tok.t = "ws"
NotWs(tok) == tok.t # "ws"

\* json.loads: one value, whitespace allowed around tokens, nothing after it
json_loads(text) ==
    LET s == SelectSeq(text, NotWs)
        r == ParseValue(s, 1)
    IN  IF r.ok /\ r.next = Len(s) + 1 THEN [ok |-> TRUE, val |-> r.val] ELSE JsonError

---------------------------------------------------------------------------
(* The store (storage.py). *)

\* the result of a call: a value, or an exception that leaves the function
Returns(tasks) == [ok |-> TRUE, tasks |-> tasks]
Raises == [ok |-> FALSE, tasks |-> <<>>]

\* [Task.from_dict(item) for item in data]: data must be iterable and every
\* item must have .get; iterating a dict yields its keys, which are str
FromData(data, newId, now) ==
    IF data.k = "arr"
    THEN IF \A i \in 1..Len(data.items) : data.items[i].k = "obj"
         THEN Returns([i \in 1..Len(data.items) |->
                          from_dict(data.items[i].v, newId + i - 1, now)])
         ELSE Raises
    ELSE IF data.k = "obj" /\ DOMAIN data.v = {} THEN Returns(<<>>)
    ELSE Raises

\* TaskStorage.load
load(exists, text, newId, now) ==
    IF ~exists THEN Returns(<<>>)
    ELSE IF \A i \in 1..Len(text) : IsWs(text[i]) THEN Returns(<<>>)
    ELSE LET data == json_loads(text)
         IN  IF ~data.ok THEN Returns(<<>>) ELSE FromData(data.val, newId, now)

\* TaskStorage.save: the text write_text is given
save(tasks) == json_dumps([i \in 1..Len(tasks) |-> to_dict(tasks[i])])

---------------------------------------------------------------------------
(* The request handlers (app.py), as functions of the loaded task list.    *)
(* A handler's result says whether save_tasks was called, with which list, *)
(* and which message was flashed.                                          *)

Saved(tasks) == [saved |-> TRUE, tasks |-> tasks, outcome |-> "success", why |-> "none"]
Rejected(tasks, why) == [saved |-> FALSE, tasks |-> tasks, outcome |-> "error", why |-> why]

\* find_task: the first task with that id, as a list of at most one task
find_task(tasks, task_id) ==
    LET hits == {i \in 1..Len(tasks) : tasks[i].id = task_id}
    IN  IF hits = {} THEN <<>>
        ELSE <<tasks[CHOOSE i \in hits : \A j \in hits : i <= j]>>

\* the list after the task find_task returned was mutated in place
Replace(tasks, task_id, new) ==
    LET hits == {i \in 1..Len(tasks) : tasks[i].id = task_id}
        first == CHOOSE i \in hits : \A j \in hits : i <= j
    IN  [tasks EXCEPT ![first] = new]

\* apply_completion that also stamps created_at
apply_completion_StampsCreatedAt(task, completed, now) ==
    [task EXCEPT !.completed = completed, !.updated_at = now, !.created_at = now]

\* apply_completion that leaves the timestamp when completed keeps its value
apply_completion_OnlyOnChange(task, completed, now) ==
    IF task.completed = completed THEN task
    ELSE [task EXCEPT !.completed = completed, !.updated_at = now]

\* apply_completion: _timestamp() is read once
apply_completion(task, completed, now) ==
    [task EXCEPT !.completed = completed, !.updated_at = now]

\* the form fields as the handlers read them: request.form.get(...).strip()
\* for the texts, == "1" for the completed box, validate_due_date for the date
ReadForm(form) ==
    [title |-> Strip(form.title),
     description |-> Strip(form.description),
     due |-> validate_due_date(Strip(form.due_date)),
     completed |-> form.completed]

\* create_task, after load_tasks; in: the fields read from the form
create_task(tasks, in, newId, now1, now2) ==
    IF in.title = <<>> THEN Rejected(tasks, "title")
    ELSE IF ~in.due.ok THEN Rejected(tasks, "due")
    ELSE Saved(Append(tasks, Task(in.title, in.description, in.due.value,
                                  newId, now1, now2)))

\* update_status, after load_tasks
update_status(tasks, task_id, state, now) ==
    LET found == find_task(tasks, task_id)
    IN  IF found = <<>> THEN Rejected(tasks, "unknown")
        ELSE IF state \notin {"completed", "active"} THEN Rejected(tasks, "state")
        ELSE Saved(Replace(tasks, task_id,
                           apply_completion(found[1], state = "completed", now)))

\* update_task that assigns the title before it checks the date, and saves
update_task_PartialOnBadDate(tasks, task_id, in, now) ==
    LET found == find_task(tasks, task_id)
    IN  IF found = <<>> THEN Rejected(tasks, "unknown")
        ELSE IF in.title = <<>> THEN Rejected(tasks, "title")
        ELSE IF ~in.due.ok
             THEN [Rejected(Replace(tasks, task_id, [found[1] EXCEPT !.title = in.title]),
                            "due") EXCEPT !.saved = TRUE]
        ELSE Saved(Replace(tasks, task_id,
                 [found[1] EXCEPT !.title = in.title,
                                  !.description = in.description,
                                  !.due_date = in.due.value,
                                  !.completed = in.completed,
                                  !.updated_at = now]))

\* update_task, after load_tasks; in: the fields read from the form
update_task(tasks, task_id, in, now) ==
    LET found == find_task(tasks, task_id)
    IN  IF found = <<>> THEN Rejected(tasks, "unknown")
        ELSE IF in.title = <<>> THEN Rejected(tasks, "title")
        ELSE IF ~in.due.ok THEN Rejected(tasks, "due")
        ELSE Saved(Replace(tasks, task_id,
                 apply_completion([found[1] EXCEPT !.title = in.title,
                                                   !.description = in.description,
                                                   !.due_date = in.due.value],
                                  in.completed, now)))

\* delete_task, after load_tasks
delete_task(tasks, task_id) ==
    LET keep(task) == task.id # task_id
        remaining == SelectSeq(tasks, keep)
    IN  IF Len(remaining) = Len(tasks) THEN Rejected(tasks, "unknown")
        ELSE Saved(remaining)

---------------------------------------------------------------------------
(* The view (index). *)

Sentinel == <<"9", "9", "9", "9", "-", "1", "2", "-", "3", "1">>

\* sort_key: (task.completed, task.due_date or "9999-12-31", task.updated_at)
sort_key(task) ==
    <<task.completed,
      IF task.due_date = None \/ task.due_date = <<>> THEN Sentinel ELSE task.due_date,
      task.updated_at>>

\* tuple comparison: the first differing component decides; False < True
KeyLess(a, b) ==
    IF a[1] # b[1] THEN b[1]
    ELSE IF a[2] # b[2] THEN StrLess(a[2], b[2])
    ELSE a[3] < b[3]

\* sorted(xs, key=sort_key): stable, so an element goes before the first
\* element of the sorted prefix whose key is greater, behind the equal ones
RECURSIVE Insert(_, _)
Insert(sortedPrefix, x) ==
    IF sortedPrefix = <<>> THEN <<x>>
    ELSE IF KeyLess(sort_key(x), sort_key(Head(sortedPrefix))) THEN <<x>> \o sortedPrefix
    ELSE <<Head(sortedPrefix)>> \o Insert(Tail(sortedPrefix), x)

RECURSIVE SortFrom(_, _)
SortFrom(done, rest) ==
    IF rest = <<>> THEN done ELSE SortFrom(Insert(done, Head(rest)), Tail(rest))

sorted(xs) == SortFrom(<<>>, xs)

NoEdit == -1      \* request.args.get("edit") is None
EmptyEdit == 0    \* request.args.get("edit") == ""

\* the search filter without lower-casing the keyword
SearchFilter_KeywordAsTyped(tasks, search) ==
    LET hit(task) == \/ Contains(Lower(task.title), search)
                     \/ Contains(Lower(task.description), search)
    IN  IF search # <<>> THEN SelectSeq(tasks, hit) ELSE tasks

\* the search filter of index: keyword is the stripped, lower-cased q
SearchFilter(tasks, search) ==
    LET keyword == Lower(search)
        hit(task) == \/ Contains(Lower(task.title), keyword)
                     \/ Contains(Lower(task.description), keyword)
    IN  IF search # <<>> THEN SelectSeq(tasks, hit) ELSE tasks

\* the status filter of index
StatusFilter(tasks, status) ==
    LET active(task) == ~task.completed
        completed(task) == task.completed
    IN  IF status = "active" THEN SelectSeq(tasks, active)
        ELSE IF status = "completed" THEN SelectSeq(tasks, completed)
        ELSE tasks

\* index that looks the edit target up in the filtered list
index_EditFromFiltered(tasks, query) ==
    LET search == Strip(query.q)
        filtered == StatusFilter(SearchFilter(tasks, search), query.status)
    IN  [tasks |-> sorted(filtered),
         search |-> search,
         status |-> query.status,
         edit_task |-> IF query.edit # NoEdit /\ query.edit # EmptyEdit
                       THEN find_task(filtered, query.edit) ELSE <<>>]

\* index, after load_tasks: what render_template is given
index(tasks, query) ==
    LET search == Strip(query.q)
        filtered == StatusFilter(SearchFilter(tasks, search), query.status)
    IN  [tasks |-> sorted(filtered),
         search |-> search,
         status |-> query.status,
         edit_task |-> IF query.edit # NoEdit /\ query.edit # EmptyEdit
                       THEN find_task(tasks, query.edit) ELSE <<>>]

---------------------------------------------------------------------------
(* Requests, one at a time: every handler runs from load_tasks to its      *)
(* redirect or page before the next request starts.                        *)

GoodDate == <<"2", "0", "2", "0", "-", "0", "1", "-", "0", "1">>
BadDate == <<"2", "0", "2", "0", "-", "1", "3", "-", "0", "1">>

Form(title, description, due_date, completed) ==
    [title |-> title, description |-> description, due_date |-> due_date,
     completed |-> completed]

\* request.form of create and update requests
Forms ==
    { Form(<<" ", "a", " ">>, <<>>, <<>>, FALSE),
      Form(<<"b">>, <<" ", "d">>, <<" ">> \o GoodDate, TRUE),
      Form(<<>>, <<"d">>, GoodDate, TRUE),
      Form(<<" ">>, <<>>, <<>>, FALSE),
      Form(<<"a">>, <<"d">>, BadDate, TRUE) }

\* the fields of every form, read once
Fields == [form \in Forms |-> ReadForm(form)]

\* request.form["state"] of set-status requests
States == {"completed", "active", "bogus"}

Query(q, status, edit) == [q |-> q, status |-> status, edit |-> edit]

NoPage == [tasks |-> <<>>, search |-> <<>>, status |-> "all", edit_task |-> <<>>]

\* what the model keeps of the last request: the route, the flashed category
\* and reason, of a command that saved the task id and state it was given
\* and updated_at of that task before it (-1: not kept), and of a view its
\* request.args and the page it rendered
Response(op, outcome, why, id, state, before, query, page) ==
    [op |-> op, outcome |-> outcome, why |-> why, id |-> id, state |-> state,
     before |-> before, query |-> query, page |-> page]

NoQuery == Query(<<>>, "all", NoEdit)

NoResponse == Response("none", "none", "none", 0, "", -1, NoQuery, NoPage)

Answer(op, r, id, state, before) ==
    IF r.saved THEN Response(op, r.outcome, r.why, id, state, before, NoQuery, NoPage)
    ELSE Response(op, r.outcome, r.why, 0, "", -1, NoQuery, NoPage)

UpdatedAt(found) == IF found = <<>> THEN -1 ELSE found[1].updated_at

\* save_tasks(r.tasks) when the handler reached it
Commit(r) ==
    /\ fileExists' = (fileExists \/ r.saved)
    /\ content' = IF r.saved THEN save(r.tasks) ELSE content

\* load_tasks()
Stored == load(fileExists, content, nextId, clock)

\* POST /tasks; d: the seconds that pass between the two _now() calls
CreateOn(st, form, d) ==
    \E r \in {create_task(st.tasks, Fields[form], nextId, clock, clock + d)} :
        /\ st.ok
        /\ d = 1 => (r.saved /\ clock < MaxClock)
        /\ r.saved => nextId <= MaxIds
        /\ Commit(r)
        /\ nextId' = IF r.saved THEN nextId + 1 ELSE nextId
        /\ clock' = clock + d
        /\ resp' = Answer("create", r, nextId, "", -1)
        /\ UNCHANGED concVars

CreateRequest ==
    \E st \in {Stored} : \E form \in Forms, d \in {0, 1} : CreateOn(st, form, d)

\* POST /tasks/<task_id>/status
StatusOn(st, task_id, state) ==
    \E r \in {update_status(st.tasks, task_id, state, clock)} :
        /\ st.ok
        /\ Commit(r)
        /\ resp' = Answer("status", r, task_id, state,
                          UpdatedAt(find_task(st.tasks, task_id)))
        /\ UNCHANGED <<clock, nextId, concVars>>

StatusRequest ==
    \E st \in {Stored} :
        \E task_id \in 1..MaxIds, state \in States : StatusOn(st, task_id, state)

\* POST /tasks/<task_id>/update
UpdateOn(st, task_id, form) ==
    \E r \in {update_task(st.tasks, task_id, Fields[form], clock)} :
        /\ st.ok
        /\ Commit(r)
        /\ resp' = Answer("update", r, task_id, "", -1)
        /\ UNCHANGED <<clock, nextId, concVars>>

UpdateRequest ==
    \E st \in {Stored} :
        \E task_id \in 1..MaxIds, form \in Forms : UpdateOn(st, task_id, form)

\* POST /tasks/<task_id>/delete
DeleteOn(st, task_id) ==
    \E r \in {delete_task(st.tasks, task_id)} :
        /\ st.ok
        /\ Commit(r)
        /\ resp' = Answer("delete", r, task_id, "", -1)
        /\ UNCHANGED <<clock, nextId, concVars>>

DeleteRequest ==
    \E st \in {Stored} : \E task_id \in 1..MaxIds : DeleteOn(st, task_id)

\* GET /
ViewOn(st, query) ==
        /\ st.ok
        /\ resp' = Response("view", "page", "none", 0, "", -1, query,
                            index(st.tasks, query))
        /\ UNCHANGED <<fileVars, clock, nextId, concVars>>

\* request.args of the view requests made between the commands
SeqQueries == { Query(<<" ", "A">>, "active", 1) }

ViewRequest == \E st \in {Stored} : \E query \in SeqQueries : ViewOn(st, query)

\* a second passes between two requests
Tick ==
    /\ clock < MaxClock
    /\ clock' = clock + 1
    /\ UNCHANGED <<fileVars, nextId, resp, concVars>>

\* what a reader's load_tasks() returned, when one ran
NoLoadYet == [loaded |-> FALSE, tasks |-> <<>>]

\* no concurrent requests
ConcIdle ==
    /\ pc = <<>> /\ payload = <<>> /\ memory = <<>>
    /\ lastWrite = 0 /\ seen = NoLoadYet /\ committed = {}

\* the file is missing or empty when the application first runs
Init ==
    /\ fileExists \in BOOLEAN
    /\ content = <<>>
    /\ clock = 0
    /\ nextId = 1
    /\ resp = NoResponse
    /\ ConcIdle

Next ==
    \/ CreateRequest
    \/ StatusRequest
    \/ UpdateRequest
    \/ DeleteRequest
    \/ ViewRequest
    \/ Tick

Spec == Init /\ [][Next]_vars

---------------------------------------------------------------------------
(* Properties of the sequential requests. *)

StoredTasks == Stored.tasks

\* what load reads: with these unchanged, it returns what it returned
loadVars == <<fileExists, content, nextId, clock>>

\* load_tasks() of the next request
TasksAfter == load(fileExists', content', nextId', clock').tasks

\* the same, given what load_tasks() returns now
NextTasks(before) == IF UNCHANGED loadVars THEN before ELSE TasksAfter

Ids(tasks) == [i \in 1..Len(tasks) |-> tasks[i].id]
IdSet(tasks) == {tasks[i].id : i \in 1..Len(tasks)}

\* the task with that id (ids are unique where this is used)
ById(tasks, id) == find_task(tasks, id)[1]

\* the rejection conditions of the command table, on the raw form texts
EmptyTitle(form) == Strip(form.title) = <<>>
MalformedDue(form) == Strip(form.due_date) # <<>> /\ ~Strptime(Strip(form.due_date))
RejectedForms == {form \in Forms : EmptyTitle(form) \/ MalformedDue(form)}

\* C1: every rejected command leaves the stored collection as it was: a
\* create with an empty or whitespace-only title or a malformed due date, a
\* set-status with an unknown id or a state other than completed/active, an
\* update with an unknown id, an empty title or a malformed due date, and a
\* delete with an unknown id each flash an error and do not reach save_tasks;
\* a request that flashed an error left the file as it was.
C1_RejectedCommandLeavesStore ==
    /\ [](\A tasks \in {StoredTasks} :
            /\ \A form \in RejectedForms :
                 \A r \in {create_task(tasks, Fields[form], nextId, clock, clock)} :
                     ~r.saved /\ r.outcome = "error"
            /\ \A task_id \in 1..MaxIds, state \in States :
                 (task_id \notin IdSet(tasks) \/ state \notin {"completed", "active"})
                 => \A r \in {update_status(tasks, task_id, state, clock)} :
                        ~r.saved /\ r.outcome = "error"
            /\ \A task_id \in 1..MaxIds, form \in Forms :
                 (task_id \notin IdSet(tasks) \/ form \in RejectedForms)
                 => \A r \in {update_task(tasks, task_id, Fields[form], clock)} :
                        ~r.saved /\ r.outcome = "error"
            /\ \A task_id \in 1..MaxIds :
                 task_id \notin IdSet(tasks)
                 => \A r \in {delete_task(tasks, task_id)} :
                        ~r.saved /\ r.outcome = "error")
    /\ [][resp'.outcome = "error" => UNCHANGED fileVars]_vars

\* an update of a stored task was rejected for its due date
C1_Witness ==
    /\ resp.op = "update" /\ resp.outcome = "error" /\ resp.why = "due"
    /\ Len(StoredTasks) > 0

\* C4 (as claimed): after a successful create, load returns a collection
\* whose last element has the stripped title and description and the due
\* date of the form, completed = false, a non-empty id that no other task
\* has, and created_at = updated_at, whatever the clock does meanwhile.
C4_CreateThenLoad ==
    [][ \A form \in Forms, d \in {0, 1} :
          (CreateOn(Stored, form, d) /\ resp'.outcome = "success") =>
            LET after == TasksAfter
                last == after[Len(after)]
            IN  /\ Len(after) = Len(StoredTasks) + 1
                /\ last.title = Strip(form.title)
                /\ last.description = Strip(form.description)
                /\ last.due_date = (IF Strip(form.due_date) = <<>> THEN None
                                    ELSE Strip(form.due_date))
                /\ last.completed = FALSE
                /\ last.id >= 1
                /\ \A i \in 1..(Len(after) - 1) : after[i].id # last.id
                /\ last.created_at = last.updated_at
      ]_vars

\* C5: the stored collection never holds two tasks with one id; a task that
\* stays in the collection keeps its id, its place among the others and its
\* created_at; only delete removes an id, only create adds one, and the id
\* it adds was never used before.
C5_IdsAndCreatedAtStable ==
    /\ [](\A tasks \in {StoredTasks} :
            /\ \A i, j \in 1..Len(tasks) : tasks[i].id = tasks[j].id => i = j
            /\ \A i \in 1..Len(tasks) : tasks[i].id \in 1..(nextId - 1))
    /\ [][ UNCHANGED loadVars \/    \* load returns what it returned
           \A before \in {StoredTasks} : \A after \in {NextTasks(before)} :
               LET stays(task) == task.id \in IdSet(after)
               IN  /\ \A id \in IdSet(before) \cap IdSet(after) :
                         ById(after, id).created_at = ById(before, id).created_at
                   /\ IF resp'.op = "delete" /\ fileVars' # fileVars
                      THEN /\ Ids(after) = Ids(SelectSeq(before, stays))
                           /\ Len(after) = Len(before) - 1
                      ELSE IF resp'.op = "create" /\ nextId' # nextId
                      THEN Ids(after) = Append(Ids(before), nextId)
                      ELSE Ids(after) = Ids(before)
         ]_vars

\* two tasks are stored and one of them was updated after its creation
C5_Witness ==
    /\ Len(StoredTasks) = 2
    /\ resp.op = "update" /\ resp.outcome = "success"
    /\ \E i \in 1..2 : StoredTasks[i].updated_at > StoredTasks[i].created_at

\* the two set-status calls of C6, on one task, with nothing but time between
TwoCalls ==
    /\ resp.op = "status" /\ resp.outcome = "success" /\ resp.state = "completed"
    /\ resp'.op = "status" /\ resp'.outcome = "success" /\ resp'.state = "active"
    /\ resp'.id = resp.id

\* C6 (as claimed): set-status(completed) followed by set-status(active) ends
\* with completed = false and updated_at strictly greater than its value
\* before the two calls.
C6_StrictlyGreater ==
    [][ TwoCalls =>
          /\ ById(TasksAfter, resp.id).completed = FALSE
          /\ ById(TasksAfter, resp.id).updated_at > resp.before
      ]_vars

\* C6 (amended): every successful set-status and update sets updated_at of
\* its task to the second the clock shows, also when completed keeps its
\* value; the other tasks, and every task on a view or a rejected command,
\* stay as they were.  set-status(completed) followed by set-status(active)
\* ends with completed = false and updated_at at the second of the later call:
\* not smaller than before the two calls, and greater exactly when the clock
\* has left the second of the earlier value.
C6_UpdatedAtRefreshed ==
    [][ (UNCHANGED loadVars /\ resp'.outcome # "success") \/    \* nothing to show
        \A before \in {StoredTasks} : \A after \in {NextTasks(before)} :
            /\ ( /\ resp'.op \in {"status", "update"}
                 /\ resp'.outcome = "success"
                 /\ clock' = clock ) =>
                   /\ ById(after, resp'.id).updated_at = clock
                   /\ \A i \in 1..Len(before) :
                        before[i].id # resp'.id => after[i] = before[i]
            /\ (resp'.op = "view" \/ resp'.outcome = "error") => after = before
            /\ TwoCalls =>
                 \A task \in {ById(after, resp.id)} :
                   /\ task.completed = FALSE
                   /\ task.updated_at = clock'
                   /\ task.updated_at >= resp.before
                   /\ task.updated_at > resp.before <=> clock' > resp.before
      ]_vars

\* a set-status(active) succeeded on a task a second after the task's
\* creation, when its updated_at was still created_at, while another task is
\* stored
C6_Witness ==
    /\ resp.op = "status" /\ resp.outcome = "success" /\ resp.state = "active"
    /\ Len(StoredTasks) = 2
    /\ ById(StoredTasks, resp.id).updated_at > ById(StoredTasks, resp.id).created_at
    /\ resp.before = ById(StoredTasks, resp.id).created_at

---------------------------------------------------------------------------
(* The view as a function: index applied to stored collections drawn from  *)
(* a bounded set, with request.args drawn from a bounded set.              *)

\* title and description of the stored tasks
ViewTexts == { <<<<"A", "b">>, <<>>>>, <<<<"d">>, <<"a", "B">>>> }

\* due dates that passed validate_due_date
ViewDues == {None, GoodDate, Sentinel}

\* the tasks a collection may hold at place i: id i, created in second 0
ViewTasksAt(i) ==
    { [title |-> text[1], description |-> text[2], due_date |-> due,
       completed |-> done, id |-> i, created_at |-> 0, updated_at |-> at] :
      text \in ViewTexts, due \in ViewDues, done \in BOOLEAN, at \in {1, 2} }

RECURSIVE StoresOfLen(_)
StoresOfLen(n) ==
    IF n = 0 THEN {<<>>}
    ELSE {Append(ts, task) : ts \in StoresOfLen(n - 1), task \in ViewTasksAt(n)}

ViewStores == UNION {StoresOfLen(n) : n \in 0..MaxViewTasks}

ViewQueries ==
    { Query(q, status, edit) :
        q \in {<<>>, <<" ">>, <<" ", "A", "B">>, <<"D", " ">>},
        status \in {"all", "active", "completed", "done"},
        edit \in {NoEdit, EmptyEdit, 1, MaxViewTasks + 1} }

InitView ==
    /\ fileExists = TRUE
    /\ content \in {save(ts) : ts \in ViewStores}
    /\ clock = 2
    /\ nextId = MaxViewTasks + 1
    /\ resp = NoResponse
    /\ ConcIdle

\* one view request per collection: index is a function of its inputs
ViewAny ==
    /\ resp = NoResponse
    /\ \E st \in {Stored} : \E query \in ViewQueries : ViewOn(st, query)

NextView == ViewAny

SpecView == InitView /\ [][NextView]_vars

\* the calendar date of a due date, as a number; an absent one is the last day
RECURSIVE DateNum(_)
DateNum(due) ==
    IF due = None THEN DateNum(Sentinel)
    ELSE LET parts == SplitDash(due, <<>>, <<>>)
         IN  NumVal(parts[1]) * 10000 + NumVal(parts[2]) * 100 + NumVal(parts[3])

\* the place of a shown task in the stored collection
PlaceIn(tasks, task) == CHOOSE i \in 1..Len(tasks) : tasks[i] = task

\* a < b in (completed, effective due date, updated_at)
ClaimedLess(a, b) ==
    IF a.completed # b.completed THEN b.completed
    ELSE IF DateNum(a.due_date) # DateNum(b.due_date)
         THEN DateNum(a.due_date) < DateNum(b.due_date)
    ELSE a.updated_at < b.updated_at

\* C7 (as claimed): the shown list is the filtered tasks in ascending order of
\* (completed, effective due date, updated_at), an absent due date counting as
\* a maximal date: every incomplete task precedes every completed one, among
\* tasks with one completed flag a task with a due date precedes one without,
\* and tasks with equal keys keep their order in the stored collection.
C7_SortedView ==
    resp.op = "view" =>
        \A tasks \in {StoredTasks}, shown \in {resp.page.tasks} :
            \A i, j \in 1..Len(shown) :
                i < j =>
                    /\ ~ClaimedLess(shown[j], shown[i])
                    /\ shown[i].completed => shown[j].completed
                    /\ ( /\ shown[i].completed = shown[j].completed
                         /\ shown[i].due_date = None ) => shown[j].due_date = None
                    /\ ( /\ ~ClaimedLess(shown[i], shown[j])
                         /\ ~ClaimedLess(shown[j], shown[i]) )
                       => PlaceIn(tasks, shown[i]) < PlaceIn(tasks, shown[j])

\* x contains y, letter case ignored
ContainsIgnoringCase(x, y) ==
    \E k \in 0..(Len(x) - Len(y)) :
        \A n \in 1..Len(y) : LowerChar(x[k + n]) = LowerChar(y[n])

\* the two filters of the view, on one task; search is q without the
\* surrounding whitespace, as index reads it
Passes(task, search, status) ==
    /\ search # <<>> => \/ ContainsIgnoringCase(task.title, search)
                        \/ ContainsIgnoringCase(task.description, search)
    /\ status = "active" => ~task.completed
    /\ status = "completed" => task.completed

C10_EditTargetFromUnfiltered ==
    resp.op = "view" =>
        \A tasks \in {StoredTasks}, query \in {resp.query} :
            /\ resp.page.edit_task =
                 (IF query.edit \in IdSet(tasks) \ {NoEdit, EmptyEdit}
                  THEN <<ById(tasks, query.edit)>> ELSE <<>>)
            /\ \A edit \in {NoEdit, EmptyEdit} \cup 1..(MaxViewTasks + 1) :
                 index(tasks, [query EXCEPT !.edit = edit]).tasks = resp.page.tasks

\* the edit target is a task that the filters keep out of the shown list
C10_Witness ==
    /\ resp.op = "view" /\ resp.query.edit = 1
    /\ resp.page.edit_task # <<>>
    /\ \A i \in 1..Len(resp.page.tasks) : resp.page.tasks[i].id # 1
    /\ resp.page.tasks # <<>>

---------------------------------------------------------------------------
(* load as a function: applied to file contents drawn from a bounded set.  *)

FullRecord == to_dict(Task(<<"a">>, <<>>, None, 1, 0, 0))
PartialRecord == [title |-> <<"b">>, completed |-> TRUE]
EmptyObject == <<>>

FileTokens == {LB, RB, WS, NUM, JUNK, Obj(FullRecord), Obj(PartialRecord), Obj(EmptyObject)}

RECURSIVE TextsOfLen(_)
TextsOfLen(n) ==
    IF n = 0 THEN {<<>>}
    ELSE {Append(text, tok) : text \in TextsOfLen(n - 1), tok \in FileTokens}

FileTexts == UNION {TextsOfLen(n) : n \in 0..MaxFileTokens}

InitLoad ==
    /\ fileExists \in BOOLEAN
    /\ content \in FileTexts
    /\ clock = 1
    /\ nextId = 2
    /\ resp = NoResponse
    /\ ConcIdle

\* task_storage.load() is called; an exception leaves it
LoadCall ==
    /\ resp = NoResponse
    /\ \E st \in {Stored} :
         resp' = Response("load", IF st.ok THEN "returned" ELSE "raised", "none",
                          0, "", -1, NoQuery, [NoPage EXCEPT !.tasks = st.tasks])
    /\ UNCHANGED <<fileVars, clock, nextId, concVars>>

NextLoad == LoadCall

SpecLoad == InitLoad /\ [][NextLoad]_vars

\* the text is an array of task records: "[", objects, "]", whitespace apart
IsTaskArray(text) ==
    \A toks \in {SelectSeq(text, NotWs)} :
        /\ Len(toks) >= 2
        /\ toks[1] = LB /\ toks[Len(toks)] = RB
        /\ \A i \in 2..(Len(toks) - 1) : toks[i].t = "obj"

\* C3 (as claimed): load never fails; it returns an empty sequence when the
\* file does not exist, is empty or blank, or holds anything but a well-formed
\* array of task records (text that does not parse, or JSON of another
\* shape); a record that lacks keys is loaded with the defaults.
C3_LoadNeverFails ==
    resp.op = "load" =>
        /\ resp.outcome = "returned"
        /\ (~fileExists \/ ~IsTaskArray(content)) => resp.page.tasks = <<>>
        /\ (fileExists /\ IsTaskArray(content)) =>
             \A toks \in {SelectSeq(content, NotWs)} :
                 /\ Len(resp.page.tasks) = Len(toks) - 2
                 /\ \A i \in 1..(Len(toks) - 2) :
                      \A rec \in {toks[i + 1].v}, task \in {resp.page.tasks[i]} :
                        /\ task.title = IF "title" \in DOMAIN rec THEN rec.title ELSE <<>>
                        /\ task.completed =
                             IF "completed" \in DOMAIN rec THEN rec.completed ELSE FALSE
                        /\ "due_date" \notin DOMAIN rec => task.due_date = None
                        /\ "created_at" \notin DOMAIN rec => task.created_at = clock

---------------------------------------------------------------------------
(* Two write requests at once, and a reader.  Flask serves each request on  *)
(* its own thread and nothing locks the file.  A request loads the file,    *)
(* changes its own list and calls save; write_text opens the file for       *)
(* writing, which empties it, and then writes the text at the start of the  *)
(* file, through its own descriptor.                                        *)

Writers == {1, 2}

ConcTasksAt(i) ==
    { [title |-> <<"a">>, description |-> <<>>, due_date |-> None,
       completed |-> done, id |-> i, created_at |-> 0, updated_at |-> 0] :
      done \in BOOLEAN }

RECURSIVE ConcStoresOfLen(_)
ConcStoresOfLen(n) ==
    IF n = 0 THEN {<<>>}
    ELSE {Append(ts, task) : ts \in ConcStoresOfLen(n - 1), task \in ConcTasksAt(n)}

ConcStores == UNION {ConcStoresOfLen(n) : n \in 1..MaxConcTasks}

\* the commands the two writers send
Command(op, id, form, state) == [op |-> op, id |-> id, form |-> form, state |-> state]

AForm == Form(<<" ", "a", " ">>, <<>>, <<>>, FALSE)
BForm == Form(<<"b">>, <<" ", "d">>, <<" ">> \o GoodDate, TRUE)

Commands ==
    { Command("create", 0, AForm, ""),
      Command("status", 1, AForm, "completed"),
      Command("update", 2, BForm, ""),
      Command("delete", 1, AForm, "") }

\* the handler of a command, from load_tasks to the call of save_tasks
Handle(cmd, tasks, newId, now) ==
    IF cmd.op = "create" THEN create_task(tasks, Fields[cmd.form], newId, now, now)
    ELSE IF cmd.op = "status" THEN update_status(tasks, cmd.id, cmd.state, now)
    ELSE IF cmd.op = "update" THEN update_task(tasks, cmd.id, Fields[cmd.form], now)
    ELSE delete_task(tasks, cmd.id)

\* write(fd, text) at offset 0 of a file that holds old
Overwrite(old, text) == text \o SubSeq(old, Len(text) + 1, Len(old))

InitConc ==
    /\ fileExists = TRUE
    /\ \E ts \in ConcStores : content = save(ts) /\ committed = {ts}
    /\ clock = 1
    /\ nextId = MaxConcTasks + 1
    /\ resp = NoResponse
    /\ pc = [w \in Writers |-> "start"]
    /\ payload = [w \in Writers |-> <<>>]
    /\ memory = [w \in Writers |-> <<>>]
    /\ lastWrite = 0
    /\ seen = NoLoadYet

\* a writer's handler up to save_tasks: load_tasks and the change in memory
WriterLoads(w) ==
    /\ pc[w] = "start"
    /\ \E st \in {Stored} : \E cmd \in Commands :
         \E r \in {Handle(cmd, st.tasks, nextId, clock)} :
            /\ st.ok
            /\ pc' = [pc EXCEPT ![w] = IF r.saved THEN "save" ELSE "done"]
            /\ memory' = [memory EXCEPT ![w] = r.tasks]
            /\ payload' = [payload EXCEPT ![w] = save(r.tasks)]
            /\ nextId' = IF cmd.op = "create" /\ r.saved THEN nextId + 1 ELSE nextId
    /\ UNCHANGED <<fileVars, clock, resp, lastWrite, seen, committed>>

\* write_text opens the file with mode "w": the file is emptied
WriterOpens(w) ==
    /\ pc[w] = "save"
    /\ fileExists' = TRUE
    /\ content' = <<>>
    /\ pc' = [pc EXCEPT ![w] = "write"]
    /\ committed' = committed \cup {memory[w]}
    /\ UNCHANGED <<clock, nextId, resp, payload, memory, lastWrite, seen>>

\* write_text writes the text and closes the file
WriterWrites(w) ==
    /\ pc[w] = "write"
    /\ content' = Overwrite(content, payload[w])
    /\ pc' = [pc EXCEPT ![w] = "done"]
    /\ lastWrite' = w
    /\ UNCHANGED <<fileExists, clock, nextId, resp, payload, memory, seen, committed>>

\* another request calls load_tasks
ReaderLoads ==
    /\ \E st \in {Stored} : st.ok /\ seen' = [loaded |-> TRUE, tasks |-> st.tasks]
    /\ UNCHANGED <<fileVars, clock, nextId, resp, pc, payload, memory, lastWrite,
                   committed>>

NextConc ==
    \/ \E w \in Writers : WriterLoads(w)
    \/ \E w \in Writers : WriterOpens(w)
    \/ \E w \in Writers : WriterWrites(w)
    \/ ReaderLoads

SpecConc == InitConc /\ [][NextConc]_vars

\* C2 (as claimed): a load that runs while another request saves returns the
\* complete collection stored before the save or the complete collection
\* being saved, never anything in between.
C2_LoadSeesWholeCollection ==
    seen.loaded => seen.tasks \in committed

\* C9 (as claimed): when two write requests ran at once and both saved, the
\* stored collection is the one given to the save that wrote last; nothing of
\* the other writer's list is merged in.
C9_LastSaveWins ==
    ( /\ \A w \in Writers : pc[w] = "done"
      /\ lastWrite \in Writers )
    => /\ content = payload[lastWrite]
       /\ StoredTasks = memory[lastWrite]

=============================================================================
